---- MODULE Spec2Model ----
(***************************************************************************)
(* Model of examples/c/gss-client.c: main, call_server,                    *)
(* client_establish_context and connect_to_server, run as one sequential   *)
(* process against a nondeterministic environment (the GSS-API provider,   *)
(* the token transport of gss-misc.h and the operating system).            *)
(***************************************************************************)
EXTENDS Integers, Sequences, FiniteSets, TLC

\* ------------------------------------------------------------------ bounds
\* longest token the provider or the peer hands over in the model
MaxTokLen == 2
\* the ghost counter of init steps saturates here (the code has no counter)
MaxRounds == 3
\* longest message (strlen(msg) or the file's size)
MaxMsgLen == 1
\* most name types gss_inquire_names_for_mech reports
MaxMechNames == 1

\* ------------------------------------------------------------- vocabulary
ReqFlagBits == {"GSS_C_DELEG_FLAG", "GSS_C_MUTUAL_FLAG"}
RetFlagBits == {"GSS_C_MUTUAL_FLAG", "GSS_C_REPLAY_FLAG", "GSS_C_CONF_FLAG"}
MajStats == {"GSS_S_COMPLETE", "GSS_S_CONTINUE_NEEDED", "GSS_S_FAILURE"}

VARIABLES
    pc,           \* position of the process in main / call_server / client_establish_context
    argsValid,    \* main: argc == 3 after the options
    req_flags,    \* main: flags collected from -d and -mutual
    seal,         \* main: -seal
    use_file,     \* main: -f
    msgLen,       \* strlen(msg), or the size of the file msg names
    s,            \* the socket: "none", "open", "closed"
    context,      \* gss_ctx_id_t: "none" (GSS_C_NO_CONTEXT), "partial", "open", "released"
    target_name,  \* gss_name_t of client_establish_context: "unset", "held", "released"
    token_ptr,    \* "GSS_C_NO_BUFFER" or "recv_tok"
    send_tok,     \* gss_buffer_desc: [st, len]
    recv_tok,     \* gss_buffer_desc: [st, len]
    maj_stat,     \* status of the last gss_init_sec_context
    ret_flags,    \* flags granted by the last gss_init_sec_context
    cec_ret,      \* return value of client_establish_context: "none", "0", "-1"
    in_buf,       \* gss_buffer_desc of the message
    out_buf,      \* gss_buffer_desc of the wrapped token / the signature block
    state,        \* conf_state reported by gss_wrap
    mech_count,   \* mech_names->count
    i,            \* loop index of call_server
    ret,          \* return value of call_server: "none", "0", "-1"
    exit_code,    \* exit status of the process: "none", "0", "1"
    \* history of the run (not program state)
    rounds,       \* calls of gss_init_sec_context so far, saturating at MaxRounds
    init_req,     \* req_flags argument of the last gss_init_sec_context
    failure,      \* the first step that reported a failure, "none" if none did
    wrap_calls,   \* calls of gss_wrap
    verify_calls, \* calls of gss_verify_mic
    neg_sends,    \* calls of send_token made by the negotiation, saturating at MaxRounds
    post_sends,   \* calls of send_token made by call_server itself
    post_recvs,   \* calls of recv_token made by call_server itself
    ctx_deletes,  \* calls of gss_delete_sec_context on an existing context
    zero_sends,   \* calls of send_token with a token of length 0
    misused,      \* a buffer was used or released after its release or before it was set
    name_releases \* calls of gss_release_name on target_name

prog == <<pc, argsValid, req_flags, seal, use_file, msgLen, s, context,
          target_name, token_ptr, send_tok, recv_tok, maj_stat, ret_flags,
          cec_ret, in_buf, out_buf, state, mech_count, i, ret, exit_code>>
hist == <<rounds, init_req, failure, wrap_calls, verify_calls, neg_sends,
          post_sends, post_recvs, ctx_deletes, zero_sends, misused>>
vars == <<prog, hist, name_releases>>

\* ---------------------------------------------------------------- helpers
UnsetBuf == [st |-> "unset", len |-> 0]

\* a buffer filled by the provider or by recv_token
FilledBuf(len) == [st |-> IF len = 0 THEN "empty" ELSE "held", len |-> len]

\* a buffer pointing at storage of the caller (service_name, msg)
StaticBuf(len) == [st |-> "static", len |-> len]

gss_release_buffer(buf) == [st |-> "released", len |-> 0]

gss_release_name(name) == "released"

\* a buffer that must not be read: never set, or already released
BadUse(buf) == buf.st \in {"unset", "released"}

\* a buffer that must not be released: never set, already released, or
\* storage of the caller
BadRelease(buf) == buf.st \in {"unset", "released", "static"}

IsContext(c) == c \in {"partial", "open"}

\* gss_delete_sec_context: an existing context is released when the call
\* succeeds; GSS_C_NO_CONTEXT is left alone
gss_delete_sec_context(c, ok) == IF IsContext(c) /\ ok THEN "released" ELSE c

DeleteCount(c) == IF IsContext(c) THEN ctx_deletes + 1 ELSE ctx_deletes

\* the first failure reported in the run
Fail(step) == IF failure = "none" THEN step ELSE failure

\* context handle after gss_init_sec_context: Complete opens it, ContinueNeeded
\* leaves it under negotiation, a failure either leaves a context behind
\* (kept) or leaves GSS_C_NO_CONTEXT
InitSecContext(c, st, kept) ==
    CASE st = "GSS_S_COMPLETE" -> "open"
      [] st = "GSS_S_CONTINUE_NEEDED" -> "partial"
      [] OTHER -> IF kept THEN (IF IsContext(c) THEN c ELSE "partial")
                  ELSE (IF IsContext(c) THEN "released" ELSE c)

\* ------------------------------------------------------------------- Init
Init ==
    /\ pc = "main"
    /\ argsValid \in BOOLEAN
    /\ req_flags \in SUBSET ReqFlagBits
    /\ seal \in BOOLEAN
    /\ use_file \in BOOLEAN
    /\ msgLen \in 0..MaxMsgLen
    /\ s = "none"
    /\ context = "none"
    /\ target_name = "unset"
    /\ token_ptr = "GSS_C_NO_BUFFER"
    /\ send_tok = UnsetBuf
    /\ recv_tok = UnsetBuf
    /\ maj_stat = "GSS_S_COMPLETE"
    /\ ret_flags = {}
    /\ cec_ret = "none"
    /\ in_buf = UnsetBuf
    /\ out_buf = UnsetBuf
    /\ state = FALSE
    /\ mech_count = 0
    /\ i = 0
    /\ ret = "none"
    /\ exit_code = "none"
    /\ rounds = 0
    /\ init_req = {}
    /\ failure = "none"
    /\ wrap_calls = 0
    /\ verify_calls = 0
    /\ neg_sends = 0
    /\ post_sends = 0
    /\ post_recvs = 0
    /\ ctx_deletes = 0
    /\ zero_sends = 0
    /\ misused = FALSE
    /\ name_releases = 0

\* ------------------------------------------------------------------- main
\* main, lines 521-555: usage() exits with 1, otherwise call_server is entered
main_args ==
    /\ pc = "main"
    /\ IF argsValid
         THEN pc' = "connect" /\ exit_code' = exit_code
         ELSE pc' = "exit" /\ exit_code' = "1"
    /\ UNCHANGED <<argsValid, req_flags, seal, use_file, msgLen, s, context,
                   target_name, token_ptr, send_tok, recv_tok, maj_stat,
                   ret_flags, cec_ret, in_buf, out_buf, state, mech_count, i,
                   ret, hist>>
    /\ UNCHANGED name_releases

\* main, lines 554-561: exit(1) when call_server returned < 0, else return 0
main_exit ==
    /\ pc = "returned"
    /\ pc' = "exit"
    /\ exit_code' = IF ret = "-1" THEN "1" ELSE "0"
    /\ UNCHANGED <<argsValid, req_flags, seal, use_file, msgLen, s, context,
                   target_name, token_ptr, send_tok, recv_tok, maj_stat,
                   ret_flags, cec_ret, in_buf, out_buf, state, mech_count, i,
                   ret, hist>>
    /\ UNCHANGED name_releases

\* ------------------------------------------------------ connect_to_server
\* call_server, lines 317-319
connect_to_server ==
    /\ pc = "connect"
    /\ \E ok \in BOOLEAN :
         IF ok
           THEN /\ s' = "open"
                /\ pc' = "cec_import"
                /\ UNCHANGED <<ret, failure>>
           ELSE /\ s' = s
                /\ ret' = "-1"
                /\ failure' = Fail("connect")
                /\ pc' = "returned"
    /\ UNCHANGED <<argsValid, req_flags, seal, use_file, msgLen, context,
                   target_name, token_ptr, send_tok, recv_tok, maj_stat,
                   ret_flags, cec_ret, in_buf, out_buf, state, mech_count, i,
                   exit_code, rounds, init_req, wrap_calls, verify_calls,
                   neg_sends, post_sends, post_recvs, ctx_deletes, zero_sends>>
    /\ UNCHANGED misused
    /\ UNCHANGED name_releases

\* ----------------------------------------------- client_establish_context
\* lines 140-168: import the name; on success reset token_ptr and the context
cec_import_name ==
    /\ pc = "cec_import"
    /\ \E ok \in BOOLEAN :
         IF ok
           THEN /\ target_name' = "held"
                /\ token_ptr' = "GSS_C_NO_BUFFER"
                /\ context' = "none"
                /\ pc' = "cec_init"
                /\ UNCHANGED <<cec_ret, failure>>
           ELSE /\ cec_ret' = "-1"
                /\ failure' = Fail("import")
                /\ pc' = "cs_established"
                /\ UNCHANGED <<target_name, token_ptr, context>>
    /\ send_tok' = StaticBuf(1)
    /\ UNCHANGED <<argsValid, req_flags, seal, use_file, msgLen, s, recv_tok,
                   maj_stat, ret_flags, in_buf, out_buf, state, mech_count, i,
                   ret, exit_code, rounds, init_req, wrap_calls, verify_calls,
                   neg_sends, post_sends, post_recvs, ctx_deletes, zero_sends>>
    /\ UNCHANGED misused
    /\ UNCHANGED name_releases

\* lines 171-187: one init step, then the consumed input token is released
\* cec_init_sec_context with recv_tok released whether or not it was the
\* input token of the step
Mut_cec_init_release_unconditional ==
    /\ pc = "cec_init"
    /\ \E st \in MajStats, len \in 0..MaxTokLen, granted \in SUBSET RetFlagBits,
          kept \in BOOLEAN :
         /\ maj_stat' = st
         /\ context' = InitSecContext(context, st, kept)
         /\ send_tok' = FilledBuf(len)
         /\ ret_flags' = granted
         /\ failure' = IF st = "GSS_S_FAILURE" THEN Fail("init") ELSE failure
    /\ init_req' = req_flags \cup {"GSS_C_REPLAY_FLAG"}
    /\ rounds' = IF rounds < MaxRounds THEN rounds + 1 ELSE rounds
    /\ recv_tok' = gss_release_buffer(recv_tok)
    /\ pc' = "cec_send"
    /\ UNCHANGED <<argsValid, req_flags, seal, use_file, msgLen, s,
                   target_name, token_ptr, cec_ret, in_buf, out_buf, state,
                   mech_count, i, ret, exit_code, wrap_calls, verify_calls,
                   neg_sends, post_sends, post_recvs, ctx_deletes, zero_sends>>
    /\ misused' = (misused \/ BadRelease(recv_tok))
    /\ UNCHANGED name_releases

\* client_establish_context, lines 171-187: one gss_init_sec_context call and
\* the release of the token it consumed
cec_init_sec_context ==
    /\ pc = "cec_init"
    /\ \E st \in MajStats, len \in 0..MaxTokLen, granted \in SUBSET RetFlagBits,
          kept \in BOOLEAN :
         /\ maj_stat' = st
         /\ context' = InitSecContext(context, st, kept)
         /\ send_tok' = FilledBuf(len)
         /\ ret_flags' = granted
         /\ failure' = IF st = "GSS_S_FAILURE" THEN Fail("init") ELSE failure
    /\ init_req' = req_flags \cup {"GSS_C_REPLAY_FLAG"}
    /\ rounds' = IF rounds < MaxRounds THEN rounds + 1 ELSE rounds
    /\ recv_tok' = IF token_ptr # "GSS_C_NO_BUFFER"
                     THEN gss_release_buffer(recv_tok) ELSE recv_tok
    /\ pc' = "cec_send"
    /\ UNCHANGED <<argsValid, req_flags, seal, use_file, msgLen, s,
                   target_name, token_ptr, cec_ret, in_buf, out_buf, state,
                   mech_count, i, ret, exit_code, wrap_calls, verify_calls,
                   neg_sends, post_sends, post_recvs, ctx_deletes, zero_sends>>
    /\ misused' = (misused \/ (token_ptr # "GSS_C_NO_BUFFER" /\ BadUse(recv_tok)))
    /\ UNCHANGED name_releases

\* SendTokPending without the length test
Mut_SendTokPending_always == TRUE

\* line 189: whether the output token of the init step is transmitted
SendTokPending == send_tok.len # 0

\* cec_send_token with the status examined first: the token of a failed
\* init step is not transmitted
Mut_cec_send_token_status_first ==
    /\ pc = "cec_send"
    /\ IF SendTokPending /\ maj_stat # "GSS_S_FAILURE"
         THEN /\ zero_sends' = IF send_tok.len = 0 THEN zero_sends + 1 ELSE zero_sends
              /\ neg_sends' = IF neg_sends < MaxRounds THEN neg_sends + 1 ELSE neg_sends
              /\ \E ok \in BOOLEAN :
                   IF ok
                     THEN /\ pc' = "cec_status"
                          /\ UNCHANGED <<target_name, name_releases, cec_ret, failure>>
                     ELSE /\ target_name' = gss_release_name(target_name)
                          /\ name_releases' = name_releases + 1
                          /\ cec_ret' = "-1"
                          /\ failure' = Fail("neg_send")
                          /\ pc' = "cs_established"
         ELSE /\ pc' = "cec_status"
              /\ UNCHANGED <<target_name, name_releases, cec_ret, failure, zero_sends, neg_sends>>
    /\ send_tok' = gss_release_buffer(send_tok)
    /\ UNCHANGED <<argsValid, req_flags, seal, use_file, msgLen, s, context,
                   token_ptr, recv_tok, maj_stat, ret_flags, in_buf, out_buf,
                   state, mech_count, i, ret, exit_code, rounds, init_req,
                   wrap_calls, verify_calls, post_sends, post_recvs,
                   ctx_deletes>>
    /\ misused' = (misused \/ BadRelease(send_tok))

\* lines 189-198: transmit a non-empty output token, then release it
cec_send_token ==
    /\ pc = "cec_send"
    /\ IF SendTokPending
         THEN /\ zero_sends' = IF send_tok.len = 0 THEN zero_sends + 1 ELSE zero_sends
              /\ neg_sends' = IF neg_sends < MaxRounds THEN neg_sends + 1 ELSE neg_sends
              /\ \E ok \in BOOLEAN :
                   IF ok
                     THEN /\ pc' = "cec_status"
                          /\ UNCHANGED <<target_name, name_releases, cec_ret, failure>>
                     ELSE /\ target_name' = gss_release_name(target_name)
                          /\ name_releases' = name_releases + 1
                          /\ cec_ret' = "-1"
                          /\ failure' = Fail("neg_send")
                          /\ pc' = "cs_established"
         ELSE /\ pc' = "cec_status"
              /\ UNCHANGED <<target_name, name_releases, cec_ret, failure, zero_sends, neg_sends>>
    /\ send_tok' = gss_release_buffer(send_tok)
    /\ UNCHANGED <<argsValid, req_flags, seal, use_file, msgLen, s, context,
                   token_ptr, recv_tok, maj_stat, ret_flags, in_buf, out_buf,
                   state, mech_count, i, ret, exit_code, rounds, init_req,
                   wrap_calls, verify_calls, post_sends, post_recvs,
                   ctx_deletes>>
    /\ misused' = (misused \/ BadRelease(send_tok))

\* line 204: the guard of the context deletion after a failed init step
DeleteOnFailure == ~IsContext(context)

\* cec_status with the receive taken whenever the status is not a failure
Mut_cec_status_recv_on_complete ==
    /\ pc = "cec_status"
    /\ IF maj_stat = "GSS_S_FAILURE"
         THEN /\ target_name' = gss_release_name(target_name)
              /\ name_releases' = name_releases + 1
              /\ cec_ret' = "-1"
              /\ pc' = "cs_established"
         ELSE /\ pc' = "cec_recv"
              /\ UNCHANGED <<target_name, name_releases, cec_ret>>
    /\ UNCHANGED <<argsValid, req_flags, seal, use_file, msgLen, s, context,
                   token_ptr, send_tok, recv_tok, maj_stat, ret_flags, in_buf,
                   out_buf, state, mech_count, i, ret, exit_code, hist>>

\* cec_status with a completed context rejected when mutual authentication
\* was requested and not granted
Mut_cec_status_require_mutual ==
    /\ pc = "cec_status"
    /\ CASE maj_stat = "GSS_S_FAILURE" ->
              /\ target_name' = gss_release_name(target_name)
              /\ name_releases' = name_releases + 1
              /\ cec_ret' = "-1"
              /\ pc' = "cs_established"
         [] maj_stat = "GSS_S_CONTINUE_NEEDED" ->
              /\ pc' = "cec_recv"
              /\ UNCHANGED <<target_name, name_releases, cec_ret>>
         [] OTHER ->
              /\ target_name' = gss_release_name(target_name)
              /\ name_releases' = name_releases + 1
              /\ cec_ret' = IF "GSS_C_MUTUAL_FLAG" \in req_flags \ ret_flags
                              THEN "-1" ELSE "0"
              /\ pc' = "cs_established"
    /\ UNCHANGED <<argsValid, req_flags, seal, use_file, msgLen, s, context,
                   token_ptr, send_tok, recv_tok, maj_stat, ret_flags, in_buf,
                   out_buf, state, mech_count, i, ret, exit_code, hist>>

\* cec_status with the target name released as soon as the status has been
\* examined, the loop going on or not
Mut_cec_status_release_early ==
    /\ pc = "cec_status"
    /\ target_name' = gss_release_name(target_name)
    /\ name_releases' = name_releases + 1
    /\ CASE maj_stat = "GSS_S_FAILURE" ->
              /\ \E ok \in BOOLEAN :
                   /\ context' = IF DeleteOnFailure
                                   THEN gss_delete_sec_context(context, ok)
                                   ELSE context
                   /\ ctx_deletes' = IF DeleteOnFailure
                                       THEN DeleteCount(context) ELSE ctx_deletes
              /\ cec_ret' = "-1"
              /\ pc' = "cs_established"
         [] maj_stat = "GSS_S_CONTINUE_NEEDED" ->
              /\ pc' = "cec_recv"
              /\ UNCHANGED <<context, ctx_deletes, cec_ret>>
         [] OTHER ->
              /\ cec_ret' = "0"
              /\ pc' = "cs_established"
              /\ UNCHANGED <<context, ctx_deletes>>
    /\ UNCHANGED <<argsValid, req_flags, seal, use_file, msgLen, s, token_ptr,
                   send_tok, recv_tok, maj_stat, ret_flags, in_buf, out_buf,
                   state, mech_count, i, ret, exit_code, rounds, init_req,
                   failure, wrap_calls, verify_calls, neg_sends, post_sends, post_recvs,
                   zero_sends>>
    /\ UNCHANGED misused

\* lines 200-208, 210, 219-222: examine the status of the init step
cec_status ==
    /\ pc = "cec_status"
    /\ CASE maj_stat = "GSS_S_FAILURE" ->
              /\ target_name' = gss_release_name(target_name)
              /\ name_releases' = name_releases + 1
              /\ \E ok \in BOOLEAN :
                   /\ context' = IF DeleteOnFailure
                                   THEN gss_delete_sec_context(context, ok)
                                   ELSE context
                   /\ ctx_deletes' = IF DeleteOnFailure
                                       THEN DeleteCount(context) ELSE ctx_deletes
              /\ cec_ret' = "-1"
              /\ pc' = "cs_established"
         [] maj_stat = "GSS_S_CONTINUE_NEEDED" ->
              /\ pc' = "cec_recv"
              /\ UNCHANGED <<target_name, name_releases, context, ctx_deletes, cec_ret>>
         [] OTHER ->
              /\ target_name' = gss_release_name(target_name)
              /\ name_releases' = name_releases + 1
              /\ cec_ret' = "0"
              /\ pc' = "cs_established"
              /\ UNCHANGED <<context, ctx_deletes>>
    /\ UNCHANGED <<argsValid, req_flags, seal, use_file, msgLen, s, token_ptr,
                   send_tok, recv_tok, maj_stat, ret_flags, in_buf, out_buf,
                   state, mech_count, i, ret, exit_code, rounds, init_req,
                   failure, wrap_calls, verify_calls, neg_sends, post_sends, post_recvs,
                   zero_sends>>
    /\ UNCHANGED misused

\* cec_recv_token without the token_ptr = &recv_tok of line 216
Mut_cec_recv_token_no_ptr ==
    /\ pc = "cec_recv"
    /\ \E ok \in BOOLEAN, len \in 0..MaxTokLen :
         IF ok
           THEN /\ recv_tok' = FilledBuf(len)
                /\ pc' = "cec_init"
                /\ UNCHANGED <<target_name, name_releases, cec_ret, failure>>
           ELSE /\ len = 0
                /\ target_name' = gss_release_name(target_name)
                /\ name_releases' = name_releases + 1
                /\ cec_ret' = "-1"
                /\ failure' = Fail("neg_recv")
                /\ pc' = "cs_established"
                /\ UNCHANGED <<recv_tok>>
    /\ UNCHANGED <<argsValid, req_flags, seal, use_file, msgLen, s, context,
                   token_ptr, send_tok, maj_stat, ret_flags, in_buf, out_buf,
                   state, mech_count, i, ret, exit_code, rounds, init_req,
                   wrap_calls, verify_calls, neg_sends, post_sends,
                   post_recvs, ctx_deletes, zero_sends>>
    /\ UNCHANGED misused

\* cec_recv_token with a failed receive tried again
Mut_cec_recv_token_retry ==
    /\ pc = "cec_recv"
    /\ \E ok \in BOOLEAN, len \in 0..MaxTokLen :
         IF ok
           THEN /\ recv_tok' = FilledBuf(len)
                /\ token_ptr' = "recv_tok"
                /\ pc' = "cec_init"
                /\ failure' = failure
           ELSE /\ len = 0
                /\ failure' = Fail("neg_recv")
                /\ pc' = "cec_recv"
                /\ UNCHANGED <<recv_tok, token_ptr>>
    /\ UNCHANGED <<argsValid, req_flags, seal, use_file, msgLen, s, context,
                   target_name, send_tok, maj_stat, ret_flags, cec_ret,
                   in_buf, out_buf, state, mech_count, i, ret, exit_code,
                   rounds, init_req, wrap_calls, verify_calls, neg_sends,
                   post_sends, post_recvs, ctx_deletes, zero_sends>>
    /\ UNCHANGED misused
    /\ UNCHANGED name_releases

\* lines 210-219: receive the next token and go round the loop again
cec_recv_token ==
    /\ pc = "cec_recv"
    /\ \E ok \in BOOLEAN, len \in 0..MaxTokLen :
         IF ok
           THEN /\ recv_tok' = FilledBuf(len)
                /\ token_ptr' = "recv_tok"
                /\ pc' = "cec_init"
                /\ UNCHANGED <<target_name, name_releases, cec_ret, failure>>
           ELSE /\ len = 0
                /\ target_name' = gss_release_name(target_name)
                /\ name_releases' = name_releases + 1
                /\ cec_ret' = "-1"
                /\ failure' = Fail("neg_recv")
                /\ pc' = "cs_established"
                /\ UNCHANGED <<recv_tok, token_ptr>>
    /\ UNCHANGED <<argsValid, req_flags, seal, use_file, msgLen, s, context,
                   send_tok, maj_stat, ret_flags, in_buf, out_buf, state,
                   mech_count, i, ret, exit_code, rounds, init_req,
                   wrap_calls, verify_calls, neg_sends, post_sends, post_recvs,
                   ctx_deletes, zero_sends>>
    /\ UNCHANGED misused

\* call_server_established without the close(s) of line 324
Mut_established_no_close ==
    /\ pc = "cs_established"
    /\ IF cec_ret = "-1"
         THEN /\ ret' = "-1"
              /\ pc' = "returned"
         ELSE /\ pc' = "cs_inquire_context"
              /\ ret' = ret
    /\ UNCHANGED <<argsValid, req_flags, seal, use_file, msgLen, s, context,
                   target_name, token_ptr, send_tok, recv_tok, maj_stat,
                   ret_flags, cec_ret, in_buf, out_buf, state, mech_count, i,
                   exit_code, hist>>
    /\ UNCHANGED name_releases

\* call_server_established with the result of the establishment ignored
Mut_established_ignore_result ==
    /\ pc = "cs_established"
    /\ pc' = "cs_inquire_context"
    /\ UNCHANGED <<argsValid, req_flags, seal, use_file, msgLen, s, context,
                   target_name, token_ptr, send_tok, recv_tok, maj_stat,
                   ret_flags, cec_ret, in_buf, out_buf, state, mech_count, i,
                   ret, exit_code, hist>>
    /\ UNCHANGED name_releases

\* ------------------------------------------------------------ call_server
\* lines 322-326: a failed establishment closes the socket and returns -1
call_server_established ==
    /\ pc = "cs_established"
    /\ IF cec_ret = "-1"
         THEN /\ s' = "closed"
              /\ ret' = "-1"
              /\ pc' = "returned"
         ELSE /\ pc' = "cs_inquire_context"
              /\ UNCHANGED <<s, ret>>
    /\ UNCHANGED <<argsValid, req_flags, seal, use_file, msgLen, context,
                   target_name, token_ptr, send_tok, recv_tok, maj_stat,
                   ret_flags, cec_ret, in_buf, out_buf, state, mech_count, i,
                   exit_code, hist>>
    /\ UNCHANGED name_releases

\* the shape of every inquiry step of lines 331-410: on failure the status is
\* displayed and -1 is returned at once; the names and display buffers these
\* steps hold are not part of the model
InquiryStep(here, next, step) ==
    /\ pc = here
    /\ \E ok \in BOOLEAN :
         IF ok
           THEN /\ pc' = next
                /\ UNCHANGED <<ret, failure>>
           ELSE /\ ret' = "-1"
                /\ failure' = Fail(step)
                /\ pc' = "returned"
    /\ UNCHANGED <<argsValid, req_flags, seal, use_file, msgLen, s, context,
                   target_name, token_ptr, send_tok, recv_tok, maj_stat,
                   ret_flags, cec_ret, in_buf, out_buf, state, exit_code,
                   rounds, init_req, wrap_calls, verify_calls, neg_sends, post_sends,
                   post_recvs, ctx_deletes, zero_sends>>
    /\ UNCHANGED misused
    /\ UNCHANGED name_releases

\* lines 332-340
cs_inquire_context ==
    /\ InquiryStep("cs_inquire_context", "cs_display_src", "inquire_context")
    /\ UNCHANGED <<mech_count, i>>

\* lines 342-347
cs_display_src_name ==
    /\ InquiryStep("cs_display_src", "cs_display_targ", "display_name")
    /\ UNCHANGED <<mech_count, i>>

\* lines 348-364
cs_display_targ_name ==
    /\ InquiryStep("cs_display_targ", "cs_oid_name_type", "display_name")
    /\ UNCHANGED <<mech_count, i>>

\* lines 366-375
cs_oid_to_str_name_type ==
    /\ InquiryStep("cs_oid_name_type", "cs_inquire_names", "oid_to_str")
    /\ UNCHANGED <<mech_count, i>>

\* lines 378-384: on success mech_names holds mech_count name types
cs_inquire_names_for_mech ==
    /\ InquiryStep("cs_inquire_names", "cs_oid_mech", "inquire_names")
    /\ \E n \in 0..MaxMechNames :
         mech_count' = IF pc' = "returned" THEN mech_count ELSE n
    /\ i' = i

\* lines 386-398: the mechanism's OID is printed and the loop index is reset
cs_oid_to_str_mech ==
    /\ InquiryStep("cs_oid_mech", "cs_oid_loop", "oid_to_str")
    /\ i' = IF pc' = "returned" THEN i ELSE 0
    /\ mech_count' = mech_count

\* lines 398-410: one pass of the loop over the name types
cs_oid_loop ==
    /\ i < mech_count
    /\ InquiryStep("cs_oid_loop", "cs_oid_loop", "oid_to_str")
    /\ i' = IF pc' = "returned" THEN i ELSE i + 1
    /\ mech_count' = mech_count

\* lines 398, 411-419: the loop ends; the message is taken from the argument
\* or read from the file (read_file exits with 1 when it cannot)
cs_read_message ==
    /\ pc = "cs_oid_loop"
    /\ ~(i < mech_count)
    /\ IF use_file
         THEN \E ok \in BOOLEAN :
                IF ok
                  THEN /\ in_buf' = FilledBuf(msgLen)
                       /\ pc' = "cs_wrap"
                       /\ UNCHANGED <<exit_code, failure>>
                  ELSE /\ exit_code' = "1"
                       /\ failure' = Fail("read_file")
                       /\ pc' = "exit"
                       /\ in_buf' = in_buf
         ELSE /\ in_buf' = StaticBuf(msgLen)
              /\ pc' = "cs_wrap"
              /\ UNCHANGED <<exit_code, failure>>
    /\ UNCHANGED <<argsValid, req_flags, seal, use_file, msgLen, s, context,
                   target_name, token_ptr, send_tok, recv_tok, maj_stat,
                   ret_flags, cec_ret, out_buf, state, mech_count, i, ret,
                   rounds, init_req, wrap_calls, verify_calls, neg_sends, post_sends,
                   post_recvs, ctx_deletes, zero_sends>>
    /\ UNCHANGED misused
    /\ UNCHANGED name_releases

\* Abort without the gss_delete_sec_context of the failure exits
Mut_Abort_no_delete(step) ==
    /\ s' = "closed"
    /\ context' = context
    /\ ctx_deletes' = ctx_deletes
    /\ ret' = "-1"
    /\ failure' = Fail(step)
    /\ pc' = "returned"

\* the failure exit of lines 424-428, 435-437, 443-445, 453-455: close the
\* socket, delete the context, return -1
Abort(step) ==
    /\ s' = "closed"
    /\ \E ok \in BOOLEAN : context' = gss_delete_sec_context(context, ok)
    /\ ctx_deletes' = DeleteCount(context)
    /\ ret' = "-1"
    /\ failure' = Fail(step)
    /\ pc' = "returned"

\* cs_wrap with a message that was to be sealed and was not treated as a
\* failed wrap
Mut_cs_wrap_unsealed_is_error ==
    /\ pc = "cs_wrap"
    /\ wrap_calls' = wrap_calls + 1
    /\ \E ok \in BOOLEAN :
         IF ok
           THEN /\ \E len \in 1..MaxTokLen : out_buf' = FilledBuf(len)
                /\ state' \in (IF seal THEN BOOLEAN ELSE {FALSE})
                /\ IF seal /\ ~state'
                     THEN Abort("wrap")
                     ELSE /\ pc' = "cs_send"
                          /\ UNCHANGED <<s, context, ctx_deletes, ret, failure>>
           ELSE /\ Abort("wrap")
                /\ UNCHANGED <<out_buf, state>>
    /\ UNCHANGED <<argsValid, req_flags, seal, use_file, msgLen, target_name,
                   token_ptr, send_tok, recv_tok, maj_stat, ret_flags,
                   cec_ret, in_buf, mech_count, i, exit_code, rounds,
                   init_req, verify_calls, neg_sends, post_sends, post_recvs,
                   zero_sends>>
    /\ misused' = (misused \/ BadUse(in_buf))
    /\ UNCHANGED name_releases

\* lines 421-431: wrap the message; a token made by gss_wrap is never empty
cs_wrap ==
    /\ pc = "cs_wrap"
    /\ wrap_calls' = wrap_calls + 1
    /\ \E ok \in BOOLEAN :
         IF ok
           THEN /\ \E len \in 1..MaxTokLen : out_buf' = FilledBuf(len)
                /\ state' \in (IF seal THEN BOOLEAN ELSE {FALSE})
                /\ pc' = "cs_send"
                /\ UNCHANGED <<s, context, ctx_deletes, ret, failure>>
           ELSE /\ Abort("wrap")
                /\ UNCHANGED <<out_buf, state>>
    /\ UNCHANGED <<argsValid, req_flags, seal, use_file, msgLen, target_name,
                   token_ptr, send_tok, recv_tok, maj_stat, ret_flags,
                   cec_ret, in_buf, mech_count, i, exit_code, rounds,
                   init_req, verify_calls, neg_sends, post_sends, post_recvs,
                   zero_sends>>
    /\ misused' = (misused \/ BadUse(in_buf))
    /\ UNCHANGED name_releases

\* lines 433-439: send the wrapped token, then release it
cs_send_token ==
    /\ pc = "cs_send"
    /\ post_sends' = post_sends + 1
    /\ zero_sends' = IF out_buf.len = 0 THEN zero_sends + 1 ELSE zero_sends
    /\ \E ok \in BOOLEAN :
         IF ok
           THEN /\ out_buf' = gss_release_buffer(out_buf)
                /\ pc' = "cs_recv"
                /\ UNCHANGED <<s, context, ctx_deletes, ret, failure>>
           ELSE /\ Abort("send")
                /\ out_buf' = out_buf
    /\ UNCHANGED <<argsValid, req_flags, seal, use_file, msgLen, target_name,
                   token_ptr, send_tok, recv_tok, maj_stat, ret_flags,
                   cec_ret, in_buf, state, mech_count, i, exit_code, rounds,
                   init_req, wrap_calls, verify_calls, neg_sends, post_recvs>>
    /\ misused' = (misused \/ BadRelease(out_buf))
    /\ UNCHANGED name_releases

\* cs_recv_token with a failed receive tried again
Mut_cs_recv_token_retry ==
    /\ pc = "cs_recv"
    /\ post_recvs' = post_recvs + 1
    /\ \E ok \in BOOLEAN, len \in 0..MaxTokLen :
         IF ok
           THEN /\ out_buf' = FilledBuf(len)
                /\ pc' = "cs_verify"
           ELSE /\ len = 0
                /\ out_buf' = out_buf
                /\ pc' = "cs_recv"
    /\ UNCHANGED <<argsValid, req_flags, seal, use_file, msgLen, s, context,
                   target_name, token_ptr, send_tok, recv_tok, maj_stat,
                   ret_flags, cec_ret, in_buf, state, mech_count, i, ret,
                   exit_code, rounds, init_req, failure, wrap_calls,
                   verify_calls, neg_sends, post_sends, ctx_deletes,
                   zero_sends>>
    /\ UNCHANGED misused
    /\ UNCHANGED name_releases

\* lines 441-446: read the signature block into out_buf
cs_recv_token ==
    /\ pc = "cs_recv"
    /\ post_recvs' = post_recvs + 1
    /\ \E ok \in BOOLEAN, len \in 0..MaxTokLen :
         IF ok
           THEN /\ out_buf' = FilledBuf(len)
                /\ pc' = "cs_verify"
                /\ UNCHANGED <<s, context, ctx_deletes, ret, failure>>
           ELSE /\ len = 0
                /\ Abort("recv")
                /\ out_buf' = out_buf
    /\ UNCHANGED <<argsValid, req_flags, seal, use_file, msgLen, target_name,
                   token_ptr, send_tok, recv_tok, maj_stat, ret_flags,
                   cec_ret, in_buf, state, mech_count, i, exit_code, rounds,
                   init_req, wrap_calls, verify_calls, neg_sends, post_sends,
                   zero_sends>>
    /\ UNCHANGED misused
    /\ UNCHANGED name_releases

\* cs_verify_mic with a failed verification answered by sending the wrapped
\* message again
Mut_cs_verify_mic_resend ==
    /\ pc = "cs_verify"
    /\ verify_calls' = verify_calls + 1
    /\ \E ok \in BOOLEAN :
         IF ok
           THEN /\ out_buf' = gss_release_buffer(out_buf)
                /\ in_buf' = IF use_file THEN gss_release_buffer(in_buf) ELSE in_buf
                /\ pc' = "cs_delete"
                /\ failure' = failure
           ELSE /\ out_buf' = out_buf
                /\ in_buf' = in_buf
                /\ pc' = "cs_wrap"
                /\ failure' = Fail("verify")
    /\ UNCHANGED <<argsValid, req_flags, seal, use_file, msgLen, s, context,
                   target_name, token_ptr, send_tok, recv_tok, maj_stat,
                   ret_flags, cec_ret, state, mech_count, i, ret, exit_code,
                   rounds, init_req, wrap_calls, neg_sends, post_sends,
                   post_recvs, ctx_deletes, zero_sends>>
    /\ misused' = (misused \/ BadUse(out_buf) \/ BadUse(in_buf))
    /\ UNCHANGED name_releases

\* lines 448-460: verify the signature block, release it, free a file's message
cs_verify_mic ==
    /\ pc = "cs_verify"
    /\ verify_calls' = verify_calls + 1
    /\ \E ok \in BOOLEAN :
         IF ok
           THEN /\ out_buf' = gss_release_buffer(out_buf)
                /\ in_buf' = IF use_file THEN gss_release_buffer(in_buf) ELSE in_buf
                /\ pc' = "cs_delete"
                /\ UNCHANGED <<s, context, ctx_deletes, ret, failure>>
           ELSE /\ Abort("verify")
                /\ UNCHANGED <<out_buf, in_buf>>
    /\ UNCHANGED <<argsValid, req_flags, seal, use_file, msgLen, target_name,
                   token_ptr, send_tok, recv_tok, maj_stat, ret_flags,
                   cec_ret, state, mech_count, i, exit_code, rounds,
                   init_req, wrap_calls, neg_sends, post_sends, post_recvs, zero_sends>>
    /\ misused' = (misused \/ BadUse(out_buf) \/ BadUse(in_buf)
                         \/ (use_file /\ pc' = "cs_delete" /\ BadRelease(in_buf)))
    /\ UNCHANGED name_releases

\* cs_delete_sec_context with the status of the deletion ignored
Mut_cs_delete_status_ignored ==
    /\ pc = "cs_delete"
    /\ \E ok \in BOOLEAN :
         /\ context' = gss_delete_sec_context(context, ok)
         /\ failure' = IF ok THEN failure ELSE Fail("delete")
    /\ ctx_deletes' = DeleteCount(context)
    /\ out_buf' = gss_release_buffer(out_buf)
    /\ s' = "closed"
    /\ ret' = "0"
    /\ pc' = "returned"
    /\ UNCHANGED <<argsValid, req_flags, seal, use_file, msgLen, target_name,
                   token_ptr, send_tok, recv_tok, maj_stat, ret_flags,
                   cec_ret, in_buf, state, mech_count, i, exit_code, rounds,
                   init_req, wrap_calls, verify_calls, neg_sends, post_sends,
                   post_recvs, zero_sends>>
    /\ UNCHANGED misused
    /\ UNCHANGED name_releases

\* lines 464-475: delete the context; a failure closes the socket, deletes
\* again and returns -1, a success releases the output token, closes, returns 0
cs_delete_sec_context ==
    /\ pc = "cs_delete"
    /\ \E ok \in BOOLEAN :
         IF ok
           THEN /\ context' = gss_delete_sec_context(context, TRUE)
                /\ ctx_deletes' = DeleteCount(context)
                /\ out_buf' = gss_release_buffer(out_buf)
                /\ s' = "closed"
                /\ ret' = "0"
                /\ failure' = failure
           ELSE /\ \E ok2 \in BOOLEAN :
                     context' = gss_delete_sec_context(context, ok2)
                /\ ctx_deletes' = DeleteCount(context) + 1
                /\ out_buf' = out_buf
                /\ s' = "closed"
                /\ ret' = "-1"
                /\ failure' = Fail("delete")
    /\ pc' = "returned"
    /\ UNCHANGED <<argsValid, req_flags, seal, use_file, msgLen, target_name,
                   token_ptr, send_tok, recv_tok, maj_stat, ret_flags,
                   cec_ret, in_buf, state, mech_count, i, exit_code, rounds,
                   init_req, wrap_calls, verify_calls, neg_sends, post_sends, post_recvs,
                   zero_sends>>
    /\ UNCHANGED misused
    /\ UNCHANGED name_releases

\* ---------------------------------------------------------- specification
Next ==
    \/ main_args
    \/ connect_to_server
    \/ cec_import_name
    \/ cec_init_sec_context
    \/ cec_send_token
    \/ cec_status
    \/ cec_recv_token
    \/ call_server_established
    \/ cs_inquire_context
    \/ cs_display_src_name
    \/ cs_display_targ_name
    \/ cs_oid_to_str_name_type
    \/ cs_inquire_names_for_mech
    \/ cs_oid_to_str_mech
    \/ cs_oid_loop
    \/ cs_read_message
    \/ cs_wrap
    \/ cs_send_token
    \/ cs_recv_token
    \/ cs_verify_mic
    \/ cs_delete_sec_context
    \/ main_exit

Spec == Init /\ [][Next]_vars

\* the process is sequential and keeps running until it exits: no step that
\* is possible is postponed forever
FairSpec == Spec /\ WF_vars(Next)

\* ----------------------------------------------------------------- claims
NegotiationPcs == {"cec_import", "cec_init", "cec_send", "cec_status", "cec_recv"}

Returned == ret # "none"

\* C1: once the connection is open, call_server has closed it whenever it
\* has returned
C1_ConnectionClosedOnReturn ==
    (Returned /\ s # "none") => s = "closed"

\* C2: once client_establish_context has returned success, call_server has
\* called gss_delete_sec_context on the context whenever it has returned
C2_ContextReleasedOnReturn ==
    (Returned /\ cec_ret = "0") => ctx_deletes > 0

\* C3: after a failed negotiation no context survives the session without
\* gss_delete_sec_context having been called on it
C3_PartialContextReleased ==
    (Returned /\ cec_ret = "-1" /\ IsContext(context)) => ctx_deletes > 0

\* C4: the negotiation loop always terminates: once the first init step is
\* reached, client_establish_context eventually returns
C4_NegotiationTerminates ==
    (pc = "cec_init") ~> (cec_ret # "none")

\* C5: after a failed establishment neither gss_wrap nor gss_verify_mic is
\* called, no protected-message token is sent or awaited, and call_server
\* returns -1 with the connection closed
C5_FailedEstablishmentClosesOnly ==
    cec_ret = "-1" =>
        /\ wrap_calls = 0 /\ verify_calls = 0
        /\ post_sends = 0 /\ post_recvs = 0
        /\ pc \in {"cs_established", "returned", "exit"}
        /\ Returned => (ret = "-1" /\ s = "closed")

\* C5 witness: the provider failed at round 2 and call_server has returned
C5_Witness ==
    /\ Returned /\ cec_ret = "-1"
    /\ failure = "init" /\ rounds = 2
    /\ s = "closed" /\ wrap_calls = 0

\* C6: call_server returns 0, and the process exits with 0, exactly when no
\* step reported a failure, and then every step of the session was performed;
\* otherwise the result is -1 and the exit code 1
C6_SuccessIffEveryStepSucceeded ==
    /\ Returned => (ret = "0" <=> failure = "none")
    /\ Returned => ret \in {"0", "-1"}
    /\ ret = "0" =>
         /\ s = "closed" /\ cec_ret = "0" /\ maj_stat = "GSS_S_COMPLETE"
         /\ rounds >= 1 /\ wrap_calls = 1 /\ post_sends = 1
         /\ post_recvs = 1 /\ verify_calls = 1 /\ ctx_deletes = 1
    /\ exit_code # "none" =>
         /\ exit_code \in {"0", "1"}
         /\ exit_code = "0" <=> (argsValid /\ failure = "none")
         /\ exit_code = "0" => ret = "0"

\* C6 witness: a session of two rounds that ended with exit code 0
C6_Witness ==
    exit_code = "0" /\ ret = "0" /\ rounds = 2 /\ failure = "none"

\* C7: gss_wrap and gss_verify_mic are called only on an open context: the
\* last init step returned Complete, the establishment returned success and
\* gss_delete_sec_context has not been called
C7_ProtectionOnlyWhileOpen ==
    /\ pc \in {"cs_wrap", "cs_verify"} =>
         /\ context = "open"
         /\ maj_stat = "GSS_S_COMPLETE" /\ cec_ret = "0"
         /\ ctx_deletes = 0
    /\ (wrap_calls > 0 \/ verify_calls > 0) => cec_ret = "0"
    /\ (pc \in NegotiationPcs \/ ~IsContext(context)) =>
         pc \notin {"cs_wrap", "cs_verify"}

\* C7 witness: gss_wrap has been called and gss_verify_mic is about to be
C7_Witness ==
    pc = "cs_verify" /\ wrap_calls = 1 /\ context = "open" /\ rounds = 2

\* C8: after the negotiation call_server sends at most one token, the one
\* gss_wrap produced, receives only after that send, at most once, and a
\* successful session made exactly one send and one receive; no negotiation
\* step follows them
C8_OneSendThenOneReceive ==
    /\ post_sends <= 1
    /\ post_recvs <= post_sends
    /\ pc = "cs_send" => (wrap_calls = 1 /\ post_sends = 0 /\ out_buf.st = "held")
    /\ pc = "cs_recv" => (post_sends = 1 /\ post_recvs = 0)
    /\ ret = "0" => (post_sends = 1 /\ post_recvs = 1)
    /\ post_sends + post_recvs > 0 => (cec_ret = "0" /\ pc \notin NegotiationPcs)

\* C8 witness: a successful session whose negotiation sent a token
C8_Witness ==
    ret = "0" /\ neg_sends >= 1 /\ post_sends = 1 /\ post_recvs = 1

\* C9 as stated: a negotiation that has ended in a round whose init step
\* returned ContinueNeeded has called recv_token in that round (so it can
\* only have ended because that receive failed)
C9_RecvIffContinueNeeded ==
    (cec_ret # "none" /\ rounds > 0 /\ maj_stat = "GSS_S_CONTINUE_NEEDED")
        => failure = "neg_recv"

\* C9 amended: recv_token is called in a round exactly when the init step of
\* the round returned ContinueNeeded and the send of the round's output token,
\* if there was one, did not fail; after Complete neither a receive nor an
\* init step follows
C9_RecvIffContinueAndSent ==
    /\ [][/\ pc' = "cec_recv" =>
               (pc = "cec_status" /\ maj_stat = "GSS_S_CONTINUE_NEEDED")
          /\ (pc = "cec_status" /\ maj_stat = "GSS_S_CONTINUE_NEEDED") =>
               pc' = "cec_recv"
          /\ (pc = "cec_send" /\ maj_stat = "GSS_S_CONTINUE_NEEDED"
                               /\ pc' # "cec_status") =>
               (failure' = "neg_send" /\ cec_ret' = "-1")
          /\ (pc = "cec_status" /\ maj_stat = "GSS_S_COMPLETE") =>
               (pc' = "cs_established" /\ cec_ret' = "0")
          /\ pc' = "cec_init" => pc \in {"cec_import", "cec_recv"}]_vars
    /\ [](pc = "cec_recv" => maj_stat = "GSS_S_CONTINUE_NEEDED")
    /\ []((rounds > 0 /\ maj_stat = "GSS_S_COMPLETE") =>
             pc \notin {"cec_init", "cec_recv"})

\* C9 witness: the second round is about to receive after a ContinueNeeded
C9_Witness ==
    pc = "cec_recv" /\ rounds = 2 /\ maj_stat = "GSS_S_CONTINUE_NEEDED"

Downgraded == ret_flags \subseteq init_req /\ ret_flags # init_req

\* C11: a Complete init step whose granted flags are a strict subset of the
\* requested ones makes client_establish_context return 0 with those flags
\* and no failure, and call_server goes on to the steps after establishment
C11_DowngradeIsNotAnError ==
    [][/\ (pc = "cec_status" /\ maj_stat = "GSS_S_COMPLETE" /\ Downgraded) =>
            /\ cec_ret' = "0" /\ pc' = "cs_established"
            /\ ret_flags' = ret_flags /\ failure' = failure
       /\ (pc = "cs_established" /\ cec_ret = "0" /\ Downgraded) =>
            /\ pc' = "cs_inquire_context"
            /\ ret' = "none" /\ s' = "open" /\ failure' = failure]_vars

\* C11 witness: mutual authentication was requested and not granted, and the
\* session has wrapped the message and is about to send it
C11_Witness ==
    /\ pc = "cs_send" /\ wrap_calls = 1 /\ Downgraded
    /\ "GSS_C_MUTUAL_FLAG" \in init_req \ ret_flags

\* C12: a gss_wrap that produced its token is never treated as a failure,
\* whatever conf_state it reports: the session is not aborted, the next step
\* is the send of that token, and with sealing requested and not applied the
\* send is made like any other
C12_UnsealedWrapIsOnlyAWarning ==
    [][/\ (pc = "cs_wrap" /\ out_buf'.st = "held") =>
            /\ pc' = "cs_send" /\ ret' = "none" /\ failure' = failure
            /\ s' = s /\ context' = context
       /\ (pc = "cs_send" /\ seal /\ ~state) =>
            /\ post_sends' = post_sends + 1
            /\ pc' = "cs_recv" \/ failure' = "send"]_vars

\* C12 witness: sealing was requested, gss_wrap did not apply it, and the
\* session ended in success
C12_Witness ==
    ret = "0" /\ seal /\ ~state /\ post_sends = 1 /\ failure = "none"

\* C13: once gss_verify_mic has failed, call_server has returned -1 with the
\* socket closed and gss_delete_sec_context called on the context, after one
\* verify and one receive only; the process exits with 1
C13_VerifyFailureEndsSession ==
    failure = "verify" =>
        /\ pc \in {"returned", "exit"}
        /\ ret = "-1" /\ s = "closed"
        /\ ctx_deletes = 1
        /\ verify_calls = 1 /\ post_recvs = 1
        /\ exit_code \in {"none", "1"}

\* C13 witness: the verification failed, its context was released and the
\* process has exited
C13_Witness ==
    failure = "verify" /\ context = "released" /\ exit_code = "1"

\* C14: every gss_init_sec_context call asks for mutual authentication and
\* for replay detection
C14_MutualAndReplayRequested ==
    rounds > 0 => {"GSS_C_MUTUAL_FLAG", "GSS_C_REPLAY_FLAG"} \subseteq init_req

\* the phase of the session the position of call_server stands for
Phase ==
    CASE pc \in {"main", "connect"} -> "Idle"
      [] pc = "cec_import" -> "Connected"
      [] pc \in {"cec_init", "cec_send", "cec_status", "cec_recv",
                 "cs_established"} -> "Negotiating"
      [] pc \in {"cs_inquire_context", "cs_display_src", "cs_display_targ",
                 "cs_oid_name_type", "cs_inquire_names", "cs_oid_mech",
                 "cs_oid_loop"} -> "Authenticated"
      [] pc \in {"cs_wrap", "cs_send"} -> "Protecting"
      [] pc \in {"cs_recv", "cs_verify", "cs_delete"} -> "Verifying"
      [] OTHER -> IF ret = "0" THEN "Closed" ELSE "Aborted"

PhaseOrder == <<"Idle", "Connected", "Negotiating", "Authenticated",
                "Protecting", "Verifying", "Closed">>

PhaseIndex(p) == CHOOSE k \in 1..Len(PhaseOrder) : PhaseOrder[k] = p

\* C15: the phase stays, moves to the next phase of the order, or jumps to
\* Aborted from a phase that is not terminal when a step has failed; in
\* Closed and Aborted no provider or transport call is made; Closed is
\* entered only after a successful verify, and the phases after Negotiating
\* only after a successful establishment
C15_PhasesOnlyMoveForward ==
    /\ [][/\ \/ Phase' = Phase
             \/ /\ Phase # "Aborted" /\ Phase' # "Aborted"
                /\ Phase # "Closed"
                /\ PhaseIndex(Phase') = PhaseIndex(Phase) + 1
             \/ /\ Phase \notin {"Closed", "Aborted"}
                /\ Phase' = "Aborted"
                /\ failure' # "none" \/ ~argsValid
          /\ Phase \in {"Closed", "Aborted"} =>
                (hist' = hist /\ s' = s /\ context' = context)]_vars
    /\ [](Phase = "Closed" =>
             (verify_calls = 1 /\ failure = "none" /\ ctx_deletes = 1))
    /\ [](Phase \in {"Authenticated", "Protecting", "Verifying", "Closed"} =>
             cec_ret = "0")

\* C15 witness: a session that went through every phase and is Closed
C15_Witness ==
    Phase = "Closed" /\ exit_code = "0" /\ rounds = 2

LoopPcs == {"cec_init", "cec_send", "cec_status", "cec_recv"}

\* C16: the first init step is given no context and no input token; every
\* later one is given the context the previous step left and the token the
\* receive just before it stored, which that init step then releases; an
\* init step is only reached from the import or from a receive
C16_InitStepInputs ==
    /\ [](pc = "cec_init" =>
             IF rounds = 0
               THEN token_ptr = "GSS_C_NO_BUFFER" /\ context = "none"
               ELSE /\ token_ptr = "recv_tok"
                    /\ recv_tok.st \in {"held", "empty"}
                    /\ context = "partial")
    /\ [][/\ pc' = "cec_init" => pc \in {"cec_import", "cec_recv"}
          /\ (pc = "cec_recv" /\ pc' = "cec_init") =>
                (token_ptr' = "recv_tok" /\ recv_tok'.st \in {"held", "empty"})
          /\ (pc = "cec_init" /\ token_ptr # "GSS_C_NO_BUFFER") =>
                recv_tok'.st = "released"
          /\ (pc \in {"cec_send", "cec_status"}) => recv_tok' = recv_tok
          /\ (pc \in LoopPcs \ {"cec_init"} /\ pc' \in LoopPcs) =>
                context' = context]_vars

\* C16 witness: the second init step is about to be given a received token
C16_Witness ==
    /\ pc = "cec_init" /\ rounds = 1
    /\ token_ptr = "recv_tok" /\ recv_tok.st = "held" /\ context = "partial"

\* C17: in a round a non-empty output token is sent whatever the status of
\* the init step, before the status is examined and so before the receive
\* of the round; after a Failure status the negotiation then returns -1; a
\* failed send returns -1 at once, with no receive; an empty token is not sent
C17_TokenSentBeforeStatus ==
    [][/\ (pc = "cec_send" /\ send_tok.len # 0) =>
            (neg_sends' = neg_sends + 1 \/ neg_sends = MaxRounds)
       /\ (pc = "cec_send" /\ send_tok.len = 0) =>
            (neg_sends' = neg_sends /\ pc' = "cec_status")
       /\ (pc = "cec_send" /\ pc' # "cec_status") =>
            /\ send_tok.len # 0
            /\ pc' = "cs_established" /\ cec_ret' = "-1"
            /\ failure' \in {"init", "neg_send"}
       /\ pc' = "cec_status" => pc = "cec_send"
       /\ pc' = "cec_recv" => pc = "cec_status"
       /\ (pc = "cec_status" /\ maj_stat = "GSS_S_FAILURE") =>
            (pc' = "cs_established" /\ cec_ret' = "-1")]_vars

\* C17 witness: the first init step failed with a non-empty token, the token
\* was sent, and the negotiation returned -1
C17_Witness ==
    /\ cec_ret = "-1" /\ failure = "init" /\ rounds = 1 /\ neg_sends = 1
    /\ pc = "returned"

\* where the process can be once a step has reported the failure f: after a
\* failed init step the pending output token is still sent and the status
\* examined; after any other failure only the return remains
AfterFailure(f) ==
    CASE f = "init" -> {"cec_send", "cec_status", "cs_established",
                        "returned", "exit"}
      [] f \in {"import", "neg_send", "neg_recv"} ->
                       {"cs_established", "returned", "exit"}
      [] OTHER -> {"returned", "exit"}

\* C18: once a step has reported a failure, no init step, receive, wrap or
\* verify is made and the failed operation is not called again: the process
\* is on its way out, the calls made so far stay as they are, and the
\* session returns -1 and exits with 1
C18_NoRetryAfterFailure ==
    /\ [](failure # "none" =>
             /\ pc \in AfterFailure(failure)
             /\ Returned => ret = "-1"
             /\ exit_code \in {"none", "1"})
    /\ [][failure # "none" =>
             /\ failure' = failure /\ rounds' = rounds
             /\ wrap_calls' = wrap_calls /\ verify_calls' = verify_calls
             /\ post_sends' = post_sends /\ post_recvs' = post_recvs
             /\ (failure # "init" => neg_sends' = neg_sends)]_vars

\* C18 witness: the receive of the second round failed and the session
\* returned -1
C18_Witness ==
    failure = "neg_recv" /\ rounds = 2 /\ ret = "-1" /\ s = "closed"

\* the token buffers of the session: send_tok and recv_tok of the negotiation,
\* out_buf of the message exchange
TokenBuffers == <<send_tok, recv_tok, out_buf>>

\* C19: every token buffer is released on every path, the failure paths
\* included: once call_server has returned, no token buffer is still held
C19_NoTokenHeldOnReturn ==
    Returned => \A k \in 1..Len(TokenBuffers) : TokenBuffers[k].st # "held"

\* a buffer holding a value that has not been released
Live(buf) == buf.st \in {"held", "empty"}

\* no buffer is read or released after its release or before it was set, and
\* no buffer is overwritten while it still holds a token
C20_BuffersInOrder ==
    /\ ~misused
    /\ (pc = "cec_init" /\ token_ptr # "GSS_C_NO_BUFFER") => Live(recv_tok)
    /\ pc = "cec_init" => ~Live(send_tok)
    /\ pc = "cec_recv" => ~Live(recv_tok)
    /\ pc = "cs_wrap" => ~Live(out_buf)
    /\ pc = "cs_recv" => out_buf.st = "released"

\* the received negotiation token is released by the init step that consumed
\* it, and by no other step
C20_RecvTokReleasedByInit ==
    /\ (pc = "cec_init" /\ token_ptr # "GSS_C_NO_BUFFER")
          => recv_tok'.st = "released"
    /\ (Live(recv_tok) /\ recv_tok' # recv_tok)
          => (pc = "cec_init" /\ recv_tok'.st = "released")

\* C20: no token buffer is released twice or handed to the provider or the
\* transport after its release; each received negotiation token is released
\* exactly once, after the init step that consumed it and before the next
\* recv_token overwrites recv_tok
C20_NoDoubleReleaseNoUseAfterRelease ==
    []C20_BuffersInOrder /\ [][C20_RecvTokReleasedByInit]_vars

\* a successful session of at least two rounds that read its message from a
\* file: every buffer has been received or filled, used and released
C20_Witness ==
    /\ ret = "0"
    /\ rounds >= 2
    /\ use_file
    /\ recv_tok.st = "released"
    /\ send_tok.st = "released"
    /\ out_buf.st = "released"
    /\ in_buf.st = "released"

\* client_establish_context has returned
EstablishReturned == cec_ret # "none"

\* C21: once gss_import_name has succeeded the target name is released
\* exactly once on every exit path of client_establish_context, and every
\* init step is given a name that has not been released; when the import
\* fails there is no init step and no send_token or recv_token
C21_TargetNameReleasedOnce ==
    /\ pc \in LoopPcs => (target_name = "held" /\ name_releases = 0)
    /\ ~EstablishReturned => name_releases = 0
    /\ (EstablishReturned /\ failure # "import")
          => (target_name = "released" /\ name_releases = 1)
    /\ failure = "import"
          => /\ target_name = "unset" /\ name_releases = 0
             /\ rounds = 0
             /\ neg_sends = 0 /\ post_sends = 0 /\ post_recvs = 0

\* a negotiation of at least two init steps that ended on a failed receive:
\* the name was given to both steps and released on the way out
C21_Witness ==
    /\ cec_ret = "-1"
    /\ failure = "neg_recv"
    /\ rounds >= 2
    /\ target_name = "released"
    /\ name_releases = 1

====
